---- MODULE Spec2Model ----
(***************************************************************************)
(* CalorieTrackerApp.py as a state machine.                                *)
(*                                                                         *)
(* The database (tables users and entries), the session held by            *)
(* CalorieTrackerApp, the window that is open and what the main window     *)
(* shows are the state.  One action per button or window callback.         *)
(*                                                                         *)
(* Representation                                                          *)
(*   text      a sequence of one-character strings ("ab" is <<"a","b">>)   *)
(*   values    Python / SQLite values carry their type in the field t      *)
(*   dates     <<year, month, day>>; the entries table stores the          *)
(*             isoformat() text of a date, compared as text by SQLite      *)
(*   floats    fixed point, the unit is stated at every definition; the    *)
(*             model's weights and heights are whole pounds and inches     *)
(***************************************************************************)
EXTENDS Integers, Sequences, FiniteSets, TLC

(***************************************************************************)
(* Bounds of the model.                                                    *)
(***************************************************************************)
\* rows the entries table may hold (the six demo entries included)
MaxEntries == 7
\* the selected date is today or one of the DaySpan days before it
DaySpan == 2
\* LIMIT arguments tried for load_daily_totals: 0 .. MaxLimit
MaxLimit == 3

(***************************************************************************)
(* Text.                                                                   *)
(***************************************************************************)
Digits == <<"0", "1", "2", "3", "4", "5", "6", "7", "8", "9">>

IsDigit(c) == \E i \in 1..10 : Digits[i] = c

DigitVal(c) == (CHOOSE i \in 1..10 : Digits[i] = c) - 1

\* byte order of the characters that occur in stored dates ("-" sorts before
\* the digits, as in ASCII)
CharCode(c) == IF IsDigit(c) THEN 48 + DigitVal(c) ELSE 45

RECURSIVE LStrip(_)
LStrip(s) == IF s # <<>> /\ Head(s) = " " THEN LStrip(Tail(s)) ELSE s

RECURSIVE RStrip(_)
RStrip(s) ==
    IF s # <<>> /\ s[Len(s)] = " " THEN RStrip(SubSeq(s, 1, Len(s) - 1)) ELSE s

\* str.strip()
Strip(s) == RStrip(LStrip(s))

RECURSIVE DigitsValue(_)
DigitsValue(s) ==
    IF s = <<>> THEN 0
    ELSE 10 * DigitsValue(SubSeq(s, 1, Len(s) - 1)) + DigitVal(s[Len(s)])

AllDigits(s) == s # <<>> /\ \A i \in 1..Len(s) : IsDigit(s[i])

(***************************************************************************)
(* Python and SQLite values.                                               *)
(***************************************************************************)
None == [t |-> "None"]
NaN == [t |-> "nan"]
ValueError == [t |-> "ValueError"]
PyInt(n) == [t |-> "int", v |-> n]
\* a float with a whole value
PyFloat(n) == [t |-> "float", v |-> n]
\* a str: typed text is a sequence of characters, the value of a read-only
\* combobox (sex, activity level) a whole string
PyStr(s) == [t |-> "str", v |-> s]

IsNumber(x) == x.t \in {"int", "float"}

\* the signed decimal literal in s after strip(), or ValueError
SignedLiteral(s) ==
    LET b == Strip(s)
        signed == b # <<>> /\ Head(b) \in {"+", "-"}
        body == IF signed THEN Tail(b) ELSE b
    IN  IF ~AllDigits(body) THEN ValueError
        ELSE IF signed /\ Head(b) = "-" THEN PyInt(0 - DigitsValue(body))
        ELSE PyInt(DigitsValue(body))

\* int(x): a str is parsed, a float is truncated, None is a TypeError.  The
\* exception is returned as a value.
int(x) ==
    CASE x.t = "int" -> x
      [] x.t = "float" -> PyInt(x.v)
      [] x.t = "str" -> SignedLiteral(x.v)
      [] x.t = "nan" -> ValueError
      [] OTHER -> [t |-> "TypeError"]

\* float(x): as int(x), and the text "nan" is the float nan.  A literal with
\* a fraction or an exponent is outside the texts of this model.
float(x) ==
    CASE x.t = "int" -> PyFloat(x.v)
      [] x.t = "float" -> x
      [] x.t = "nan" -> x
      [] x.t = "str" ->
            IF Strip(x.v) = <<"n", "a", "n">> THEN NaN
            ELSE LET r == SignedLiteral(x.v)
                 IN  IF r.t = "int" THEN PyFloat(r.v) ELSE r
      [] OTHER -> [t |-> "TypeError"]

IsError(x) == x.t \in {"ValueError", "TypeError"}

\* round(x, 0) of the float n / scale: to the nearest whole number, a tie to
\* the even neighbour
round(n, scale) ==
    LET q == n \div scale
        r == n % scale
    IN  IF 2 * r < scale THEN q
        ELSE IF 2 * r > scale THEN q + 1
        ELSE IF q % 2 = 0 THEN q ELSE q + 1

\* a / b < c / d for b, d > 0, by continued fractions (no product is formed)
RECURSIVE FracLess(_, _, _, _)
FracLess(a, b, c, d) ==
    LET qa == a \div b
        qc == c \div d
        ra == a % b
        rc == c % d
    IN  IF qa # qc THEN qa < qc
        ELSE IF rc = 0 THEN FALSE
        ELSE IF ra = 0 THEN TRUE
        ELSE FracLess(d, rc, b, ra)

(***************************************************************************)
(* Dates: datetime.date as <<year, month, day>>.                           *)
(***************************************************************************)
IsLeap(y) == (y % 4 = 0 /\ y % 100 # 0) \/ y % 400 = 0

DaysInMonth(y, m) ==
    IF m = 2 THEN (IF IsLeap(y) THEN 29 ELSE 28)
    ELSE IF m \in {4, 6, 9, 11} THEN 30 ELSE 31

NextDay(d) ==
    IF d[3] < DaysInMonth(d[1], d[2]) THEN <<d[1], d[2], d[3] + 1>>
    ELSE IF d[2] < 12 THEN <<d[1], d[2] + 1, 1>>
    ELSE <<d[1] + 1, 1, 1>>

PrevDay(d) ==
    IF d[3] > 1 THEN <<d[1], d[2], d[3] - 1>>
    ELSE IF d[2] > 1 THEN <<d[1], d[2] - 1, DaysInMonth(d[1], d[2] - 1)>>
    ELSE <<d[1] - 1, 12, 31>>

\* d + timedelta(days=k)
RECURSIVE AddDays(_, _)
AddDays(d, k) ==
    IF k = 0 THEN d
    ELSE IF k > 0 THEN AddDays(NextDay(d), k - 1)
    ELSE AddDays(PrevDay(d), k + 1)

\* chronological order of two dates
DateLess(a, b) ==
    \/ a[1] < b[1]
    \/ a[1] = b[1] /\ a[2] < b[2]
    \/ a[1] = b[1] /\ a[2] = b[2] /\ a[3] < b[3]

\* n in decimal, zero padded to width w
RECURSIVE Pad(_, _)
Pad(n, w) == IF w = 0 THEN <<>> ELSE Append(Pad(n \div 10, w - 1), Digits[(n % 10) + 1])

\* date.isoformat(): YYYY-MM-DD
isoformat(d) == Pad(d[1], 4) \o <<"-">> \o Pad(d[2], 2) \o <<"-">> \o Pad(d[3], 2)

\* date.fromisoformat(s), or ValueError
fromisoformat(s) ==
    IF /\ Len(s) = 10
       /\ s[5] = "-"
       /\ s[8] = "-"
       /\ AllDigits(SubSeq(s, 1, 4))
       /\ AllDigits(SubSeq(s, 6, 7))
       /\ AllDigits(SubSeq(s, 9, 10))
    THEN LET y == DigitsValue(SubSeq(s, 1, 4))
             m == DigitsValue(SubSeq(s, 6, 7))
             d == DigitsValue(SubSeq(s, 9, 10))
         IN  IF y >= 1 /\ m \in 1..12 /\ d >= 1 /\ d <= DaysInMonth(y, m)
             THEN [t |-> "date", v |-> <<y, m, d>>]
             ELSE ValueError
    ELSE ValueError

\* a < b as SQLite compares TEXT (memcmp, the shorter text first on a tie)
RECURSIVE TextLess(_, _)
TextLess(a, b) ==
    IF b = <<>> THEN FALSE
    ELSE IF a = <<>> THEN TRUE
    ELSE IF Head(a) # Head(b) THEN CharCode(Head(a)) < CharCode(Head(b))
    ELSE TextLess(Tail(a), Tail(b))

\* date.today(), the same day throughout a run
Today == <<2025, 1, 1>>

(***************************************************************************)
(* ProfileCalculator.                                                      *)
(***************************************************************************)
\* kilograms per pound, in 1e-6 kg
KG_PER_LB == 453592
\* metres per inch, in 1e-4 m
M_PER_INCH == 254

Sedentary == "Sedentary (Little/No Exercise)"
Light == "Light (1-3 days/wk)"
Moderate == "Moderate (3-5 days/wk)"
VeryActive == "Very Active (6-7 days/wk)"

\* the factors, in thousandths
ACTIVITY_FACTORS ==
    [k \in {Sedentary, Light, Moderate, VeryActive} |->
        CASE k = Sedentary -> 1200
          [] k = Light -> 1375
          [] k = Moderate -> 1550
          [] k = VeryActive -> 1725]

\* __init__ that also refuses a value that is not positive
ProfileCalculator_positive(age, height_in, weight_lb, sex, activity_level) ==
    LET a == int(age)
        h == float(height_in)
        w == float(weight_lb)
    IN  IF IsError(a) \/ IsError(h) \/ IsError(w) THEN ValueError
        ELSE IF a.v <= 0 \/ h.v <= 0 \/ w.v <= 0 THEN ValueError
        ELSE [t |-> "ProfileCalculator",
              age |-> a.v,
              height_m |-> h.v * M_PER_INCH,
              weight_kg |-> w.v * KG_PER_LB,
              sex |-> sex,
              activity_level |-> activity_level]

\* __init__: the calculator (height_m in 1e-4 m, weight_kg in 1e-6 kg), or
\* ValueError when int() or float() raises ValueError or TypeError.  A nan is
\* outside the arguments of this model.
ProfileCalculator(age, height_in, weight_lb, sex, activity_level) ==
    LET a == int(age)
        h == float(height_in)
        w == float(weight_lb)
    IN  IF IsError(a) \/ IsError(h) \/ IsError(w) THEN ValueError
        ELSE [t |-> "ProfileCalculator",
              age |-> a.v,
              height_m |-> h.v * M_PER_INCH,
              weight_kg |-> w.v * KG_PER_LB,
              sex |-> sex,
              activity_level |-> activity_level]

\* weight_kg / height_m ** 2 as the fraction n / d in kg/m2: 1e-6 kg over
\* 1e-8 m2 is 100 * weight_kg / height_m^2, written with the common factor 4
\* of 100 * KG_PER_LB and M_PER_INCH^2 removed
calculate_bmi(self) ==
    IF self.height_m = 0 THEN [n |-> 0, d |-> 1]
    ELSE [n |-> 25 * self.weight_kg, d |-> (self.height_m * self.height_m) \div 4]

\* get_bmi_category with <= for < at every boundary
get_bmi_category_inclusive(bmi) ==
    IF ~FracLess(185, 10, bmi.n, bmi.d) THEN "Underweight"
    ELSE IF ~FracLess(249, 10, bmi.n, bmi.d) THEN "Healthy Weight"
    ELSE IF ~FracLess(299, 10, bmi.n, bmi.d) THEN "Overweight"
    ELSE "Obese"

\* bmi is a fraction n / d; the literals are 18.5, 24.9 and 29.9
get_bmi_category(bmi) ==
    IF FracLess(bmi.n, bmi.d, 185, 10) THEN "Underweight"
    ELSE IF FracLess(bmi.n, bmi.d, 249, 10) THEN "Healthy Weight"
    ELSE IF FracLess(bmi.n, bmi.d, 299, 10) THEN "Overweight"
    ELSE "Obese"

\* calculate_bmr that subtracts 161 for 'Female' only and adds 5 otherwise
calculate_bmr_female_only(self) ==
    LET height_cm == (self.height_m \div M_PER_INCH) * 254
        bmr == self.weight_kg + 6250 * height_cm - 5 * self.age * 100000
    IN  IF self.sex = PyStr("Female") THEN round(bmr - 161 * 100000, 100000)
        ELSE round(bmr + 5 * 100000, 100000)

\* the sum in 1e-5 kcal: 10 * weight_kg (1e-6 kg) is weight_kg of these units;
\* height_m / M_PER_INCH * 2.54 is the height in 1e-2 cm, and 6.25 of it
\* is 6250 per unit
calculate_bmr(self) ==
    LET height_cm == (self.height_m \div M_PER_INCH) * 254
        bmr == self.weight_kg + 6250 * height_cm - 5 * self.age * 100000
    IN  IF self.sex = PyStr("Male") THEN round(bmr + 5 * 100000, 100000)
        ELSE round(bmr - 161 * 100000, 100000)

\* calculate_tdee whose missing key leaves the BMR unscaled
calculate_tdee_no_default(self, bmr) ==
    LET key == self.activity_level
        factor == IF key.t = "str" /\ key.v \in DOMAIN ACTIVITY_FACTORS
                  THEN ACTIVITY_FACTORS[key.v]
                  ELSE 1000
    IN  round(bmr * factor, 1000)

calculate_tdee(self, bmr) ==
    LET key == self.activity_level
        factor == IF key.t = "str" /\ key.v \in DOMAIN ACTIVITY_FACTORS
                  THEN ACTIVITY_FACTORS[key.v]
                  ELSE 1200
    IN  round(bmr * factor, 1000)

(***************************************************************************)
(* DatabaseManager.  A table is the sequence of its rows in rowid order    *)
(* (no row is ever deleted, so AUTOINCREMENT ids are 1, 2, ...).  Every    *)
(* operator takes the table and returns the table or the fetched rows.     *)
(***************************************************************************)
\* hashlib.sha256(...).hexdigest(): equal digests only for equal passwords
hash_password(password) == <<"sha256", password>>

\* what a REAL column keeps of a bound value: an int becomes a float, a nan
\* becomes NULL
RealColumn(x) ==
    CASE x.t = "int" -> PyFloat(x.v)
      [] x.t = "nan" -> None
      [] OTHER -> x

\* what an INTEGER column keeps: a whole float becomes an int, a nan NULL
IntegerColumn(x) ==
    CASE x.t = "float" -> PyInt(x.v)
      [] x.t = "nan" -> None
      [] OTHER -> x

\* register_user on a table whose username column is not UNIQUE
register_user_not_unique(tbl, username, password) ==
    [users |-> Append(tbl, [id |-> Len(tbl) + 1,
                            username |-> username,
                            password_hash |-> hash_password(password),
                            age |-> None,
                            height |-> None,
                            weight |-> None,
                            goal_weight |-> None,
                            sex |-> None,
                            activity_level |-> None]),
     ret |-> PyInt(Len(tbl) + 1)]

\* the INSERT fails on the UNIQUE username (IntegrityError, returns False);
\* otherwise the new row has NULL profile columns and its id is returned
register_user(tbl, username, password) ==
    IF \E i \in DOMAIN tbl : tbl[i].username = username
    THEN [users |-> tbl, ret |-> [t |-> "False"]]
    ELSE [users |-> Append(tbl, [id |-> Len(tbl) + 1,
                                 username |-> username,
                                 password_hash |-> hash_password(password),
                                 age |-> None,
                                 height |-> None,
                                 weight |-> None,
                                 goal_weight |-> None,
                                 sex |-> None,
                                 activity_level |-> None]),
          ret |-> PyInt(Len(tbl) + 1)]

login_user(tbl, username, password) ==
    LET hit == {i \in DOMAIN tbl : /\ tbl[i].username = username
                                   /\ tbl[i].password_hash = hash_password(password)}
    IN  IF hit = {} THEN None ELSE PyInt(tbl[CHOOSE i \in hit : TRUE].id)

update_profile(tbl, user_id, age, height, weight, goal_weight, sex, activity_level) ==
    [i \in DOMAIN tbl |->
        IF user_id.t = "int" /\ tbl[i].id = user_id.v
        THEN [tbl[i] EXCEPT !.age = IntegerColumn(age),
                            !.height = IntegerColumn(height),
                            !.weight = RealColumn(weight),
                            !.goal_weight = RealColumn(goal_weight),
                            !.sex = sex,
                            !.activity_level = activity_level]
        ELSE tbl[i]]

\* fetchone(): the six profile columns, or None when no row has the id
get_user_profile(tbl, user_id) ==
    LET hit == {i \in DOMAIN tbl : user_id.t = "int" /\ tbl[i].id = user_id.v}
    IN  IF hit = {} THEN None
        ELSE LET r == tbl[CHOOSE i \in hit : TRUE]
             IN  [t |-> "row",
                  v |-> <<r.age, r.height, r.weight, r.goal_weight, r.sex,
                          r.activity_level>>]

\* save_entry that keeps one row per (user, date, meal, calories)
save_entry_merging(tbl, user_id, meal, calories, entry_date) ==
    LET day == IF entry_date.t = "None" THEN isoformat(Today) ELSE entry_date.v
    IN  IF \E i \in DOMAIN tbl : /\ tbl[i].user_id = user_id
                                  /\ tbl[i].meal = meal
                                  /\ tbl[i].calories = calories
                                  /\ tbl[i].entry_date = day
        THEN tbl
        ELSE Append(tbl, [id |-> Len(tbl) + 1,
                          user_id |-> user_id,
                          meal |-> meal,
                          calories |-> calories,
                          entry_date |-> day])

save_entry(tbl, user_id, meal, calories, entry_date) ==
    Append(tbl, [id |-> Len(tbl) + 1,
                 user_id |-> user_id,
                 meal |-> meal,
                 calories |-> calories,
                 entry_date |-> IF entry_date.t = "None" THEN isoformat(Today)
                                ELSE entry_date.v])

\* a WHERE clause that lost its user_id test
OwnedByAnyone(r, user_id) == user_id.t # "None"

\* WHERE user_id = ?: a NULL parameter matches no row
OwnedBy(r, user_id) == user_id.t # "None" /\ r.user_id = user_id

\* load_entries with the newest row first
load_entries_newest_first(tbl, user_id, entry_date) ==
    LET day == IF entry_date.t = "None" THEN isoformat(Today) ELSE entry_date.v
        rows == SelectSeq(tbl, LAMBDA r : OwnedBy(r, user_id) /\ r.entry_date = day)
    IN  [i \in DOMAIN rows |->
            [meal |-> rows[Len(rows) + 1 - i].meal,
             calories |-> rows[Len(rows) + 1 - i].calories]]

load_entries(tbl, user_id, entry_date) ==
    LET day == IF entry_date.t = "None" THEN isoformat(Today) ELSE entry_date.v
        rows == SelectSeq(tbl, LAMBDA r : OwnedBy(r, user_id) /\ r.entry_date = day)
    IN  [i \in DOMAIN rows |-> [meal |-> rows[i].meal, calories |-> rows[i].calories]]

\* SUM(calories) over rows
RECURSIVE SumCalories(_)
SumCalories(rows) ==
    IF rows = <<>> THEN 0 ELSE Head(rows).calories + SumCalories(Tail(rows))

\* ORDER BY entry_date ASC
RECURSIVE OrderAsc(_)
OrderAsc(S) ==
    IF S = {} THEN <<>>
    ELSE LET m == CHOOSE x \in S : \A y \in S \ {x} : TextLess(x, y)
         IN  <<m>> \o OrderAsc(S \ {m})

\* ORDER BY entry_date DESC of a set of texts
RECURSIVE OrderDesc(_)
OrderDesc(S) ==
    IF S = {} THEN <<>>
    ELSE LET m == CHOOSE x \in S : \A y \in S \ {x} : TextLess(y, x)
         IN  <<m>> \o OrderDesc(S \ {m})

\* LIMIT n: a negative n is no limit
Limit(rows, n) ==
    IF n < 0 \/ n >= Len(rows) THEN rows ELSE SubSeq(rows, 1, n)

load_daily_totals(tbl, user_id, limit) ==
    LET mine == SelectSeq(tbl, LAMBDA r : OwnedBy(r, user_id))
        groups == OrderDesc({mine[i].entry_date : i \in DOMAIN mine})
        rows == [i \in DOMAIN groups |->
                    [date |-> groups[i],
                     total |-> SumCalories(
                         SelectSeq(mine, LAMBDA r : r.entry_date = groups[i]))]]
    IN  Limit(rows, limit)

\* SELECT DISTINCT entry_date: the order of the rows is not specified and the
\* caller does not use it, so the result is the set of the dates
load_tracked_dates(tbl, user_id) ==
    {tbl[i].entry_date : i \in {j \in DOMAIN tbl : OwnedBy(tbl[j], user_id)}}

(***************************************************************************)
(* create_default_admin on an empty database.                              *)
(***************************************************************************)
DemoName == <<"d", "e", "m", "o">>
DemoPassword == <<"p", "a", "s", "s", "w", "o", "r", "d">>

DemoUsers ==
    LET reg == register_user(<<>>, DemoName, DemoPassword)
    IN  update_profile(reg.users, reg.ret, PyInt(30), PyInt(70), PyFloat(175),
                       PyFloat(170), PyStr("Male"), PyStr(Moderate))

DemoEntries ==
    LET uid == register_user(<<>>, DemoName, DemoPassword).ret
        day1 == PyStr(isoformat(AddDays(Today, -2)))
        day2 == PyStr(isoformat(AddDays(Today, -1)))
        e1 == save_entry(<<>>, uid, <<"O", "a", "t", "m", "e", "a", "l">>, 300, day1)
        e2 == save_entry(e1, uid, <<"C", "h", "i", "c", "k", "e", "n", " ", "&", " ", "V", "e", "g", "g", "i", "e", "s">>, 750, day1)
        e3 == save_entry(e2, uid, <<"P", "r", "o", "t", "e", "i", "n", " ", "S", "h", "a", "k", "e">>, 200, day1)
        e4 == save_entry(e3, uid, <<"S", "c", "r", "a", "m", "b", "l", "e", "d", " ", "E", "g", "g", "s">>, 450, day2)
        e5 == save_entry(e4, uid, <<"T", "u", "n", "a", " ", "S", "a", "n", "d", "w", "i", "c", "h">>, 550, day2)
    IN  save_entry(e5, uid, <<"P", "a", "s", "t", "a", " ", "D", "i", "n", "n", "e", "r">>, 800, day2)

(***************************************************************************)
(* The state.                                                              *)
(***************************************************************************)
VARIABLES
    users,              \* table users
    entries,            \* table entries
    window,             \* the window that takes input: "auth", "profile", "main"
    setup,              \* user_id and username of the ProfileSetupWindow, or None
    current_user_id,    \* CalorieTrackerApp.current_user_id
    current_username,   \* CalorieTrackerApp.current_username
    selected_date,      \* CalorieTrackerApp.selected_date, None before the first login
    display,            \* what the widgets of the main window show, or None
    message,            \* the dialog the last callback raised, "" for none
    date_picker,        \* tkcalendar: "none" (DateEntry is None) or "calevents"
    calc                \* the last call made on ProfileCalculator from outside the app

vars == <<users, entries, window, setup, current_user_id, current_username,
          selected_date, display, message, date_picker, calc>>

app_vars == <<users, entries, window, setup, current_user_id, current_username,
              selected_date, display, message, date_picker>>

Idle == [op |-> "idle"]

Init ==
    /\ users = DemoUsers
    /\ entries = DemoEntries
    /\ window = "auth"
    /\ setup = None
    /\ current_user_id = None
    /\ current_username = None
    /\ selected_date = None
    /\ display = None
    /\ message = ""
    /\ date_picker \in {"none", "calevents"}
    /\ calc = Idle

(***************************************************************************)
(* calculate_and_display_profile.                                          *)
(***************************************************************************)
safety_floor(sex) == IF sex = PyStr("Male") THEN 1500 ELSE 1200

\* tdee_goal without the clamp
tdee_goal_unclamped(tdee_maintenance, goal_weight_lb, weight_lb, sex) ==
    tdee_maintenance
        + (IF goal_weight_lb < weight_lb THEN -500
           ELSE IF goal_weight_lb > weight_lb THEN 500 ELSE 0)

\* tdee_goal whose clamp does not ask for a deficit
tdee_goal_floor_always(tdee_maintenance, goal_weight_lb, weight_lb, sex) ==
    LET target == tdee_goal_unclamped(tdee_maintenance, goal_weight_lb, weight_lb, sex)
    IN  IF target < safety_floor(sex) THEN safety_floor(sex) ELSE target

tdee_goal(tdee_maintenance, goal_weight_lb, weight_lb, sex) ==
    LET target == tdee_maintenance
                    + (IF goal_weight_lb < weight_lb THEN -500
                       ELSE IF goal_weight_lb > weight_lb THEN 500 ELSE 0)
    IN  IF goal_weight_lb < weight_lb /\ target < safety_floor(sex)
        THEN safety_floor(sex)
        ELSE target

goal_text(goal_weight_lb, weight_lb) ==
    IF goal_weight_lb < weight_lb THEN "Loss Target"
    ELSE IF goal_weight_lb > weight_lb THEN "Gain Target" ELSE "Maintain Target"

\* the goal label: the kcal shown and whether " (Safety Floor)" follows it
goal_display(goal, goal_weight_lb, weight_lb, sex) ==
    [kcal |-> goal,
     safety_floor_note |-> goal_weight_lb < weight_lb /\ goal = safety_floor(sex)]

\* the test without any(x is None ...)
ProfileMissing_no_row_only(profile_data) == profile_data.t = "None"

\* not profile_data or any(x is None for x in profile_data)
ProfileMissing(profile_data) ==
    profile_data.t = "None" \/ \E i \in 1..6 : profile_data.v[i].t = "None"

\* the labels put into profile_frame (the healthy-weight row, which depends on
\* the height alone, is not kept)
calculate_and_display_profile(tbl, user_id) ==
    LET profile_data == get_user_profile(tbl, user_id)
    IN  IF ProfileMissing(profile_data)
        THEN [label |-> "Profile Data Missing. Please update."]
        ELSE
          LET age == profile_data.v[1]
              height_in == profile_data.v[2]
              weight_lb == profile_data.v[3]
              goal_weight_lb == profile_data.v[4]
              sex == profile_data.v[5]
              activity_level == profile_data.v[6]
              calculator == ProfileCalculator(age, height_in, weight_lb, sex, activity_level)
          IN  IF IsError(calculator) THEN [label |-> "Error in calculation"]
              ELSE
                LET current_bmi == calculate_bmi(calculator)
                    bmr == calculate_bmr(calculator)
                    tdee_maintenance == calculate_tdee(calculator, bmr)
                    goal == tdee_goal(tdee_maintenance, goal_weight_lb.v, weight_lb.v, sex)
                IN  [label |-> "Metrics Summary",
                     current_bmi |-> current_bmi,
                     bmi_category |-> get_bmi_category(current_bmi),
                     tdee_maintenance |-> tdee_maintenance,
                     goal_text |-> goal_text(goal_weight_lb.v, weight_lb.v),
                     goal_display |-> goal_display(goal, goal_weight_lb.v, weight_lb.v, sex)]

(***************************************************************************)
(* update_display: the total, the entry lines, the history list and the    *)
(* tagged days of the calendar.                                            *)
(***************************************************************************)
refresh_history(tbl, user_id, day) ==
    LET rows == load_daily_totals(tbl, user_id, 30)
    IN  [i \in DOMAIN rows |->
            [date |-> rows[i].date,
             total |-> rows[i].total,
             marker |-> rows[i].date = isoformat(day)]]

\* the days tagged 'tracked_day': none unless the picker has the calevent API
highlight_tracked_dates(tbl, user_id, picker) ==
    IF picker # "calevents" THEN {}
    ELSE LET parsed == {fromisoformat(s) : s \in load_tracked_dates(tbl, user_id)}
         IN  {x.v : x \in {y \in parsed : ~IsError(y)}}

update_display(tbl, user_id, day, picker, profile) ==
    LET current_entries == load_entries(tbl, user_id, PyStr(isoformat(day)))
    IN  [t |-> "widgets",
         profile |-> profile,
         total |-> SumCalories(current_entries),
         entries_text |-> current_entries,
         history_list |-> refresh_history(tbl, user_id, day),
         tracked_days |-> highlight_tracked_dates(tbl, user_id, picker)]

\* show_main_tracker(user_id, username) on the users table tbl
show_main_tracker(tbl, user_id, username) ==
    /\ current_user_id' = user_id
    /\ current_username' = username
    /\ selected_date' = [t |-> "date", v |-> Today]
    /\ window' = "main"
    /\ display' = update_display(entries, user_id, Today, date_picker,
                                 calculate_and_display_profile(tbl, user_id))

(***************************************************************************)
(* What the user types or selects.                                         *)
(***************************************************************************)
UsernameTexts == {<<"d", "e", "m", "o">>, <<" ", "b", "o", "b">>}
PasswordTexts == {<<"p", "a", "s", "s", "w", "o", "r", "d">>, <<"a", "b", "c">>, <<>>}
MealTexts == {<<" ", "O", "a", "t", "m", "e", "a", "l">>, <<" ">>}
CaloriesTexts == {<<"3", "0", "0">>, <<"0">>, <<"-", "5">>, <<"x">>, <<>>}

Form(age, feet, inches, weight, goal_weight, sex, activity_level) ==
    [age |-> age, feet |-> feet, inches |-> inches, weight |-> weight,
     goal_weight |-> goal_weight, sex |-> sex, activity_level |-> activity_level]

ProfileForms ==
    { Form(<<"2", "5">>, <<"5">>, <<"4">>, <<"1", "2", "0">>, <<"1", "1", "0">>,
           "Female", Sedentary),
      Form(<<"4", "0">>, <<"5">>, <<"1", "0">>, <<"1", "5", "0">>, <<"1", "6", "0">>,
           "Male", Light),
      Form(<<"4", "0">>, <<"6">>, <<"0">>, <<"n", "a", "n">>, <<"1", "6", "0">>,
           "Male", VeryActive),
      Form(<<"x">>, <<"5">>, <<"4">>, <<"1", "2", "0">>, <<"1", "1", "0">>,
           "Female", Sedentary),
      Form(<<"2", "5">>, <<"0">>, <<"0">>, <<"1", "2", "0">>, <<"1", "1", "0">>,
           "Female", Sedentary),
      Form(<<"2", "5">>, <<"5">>, <<"4">>, <<"1", "2", "0">>, <<"-", "1">>,
           "Female", Sedentary) }

\* the days the date controls may reach in this model
DateWindow == {AddDays(Today, k) : k \in (0 - DaySpan)..0}

(***************************************************************************)
(* AuthWindow.                                                             *)
(***************************************************************************)
login(username_text, password_text) ==
    LET username == Strip(username_text)
        password == Strip(password_text)
        user_id == login_user(users, username, password)
    IN  /\ window = "auth"
        /\ IF username = <<>> \/ password = <<>>
           THEN /\ message' = "Login Error: Please enter both username and password."
                /\ UNCHANGED <<window, current_user_id, current_username,
                               selected_date, display>>
           ELSE IF user_id.t = "int"
           THEN /\ show_main_tracker(users, user_id, PyStr(username))
                /\ message' = ""
           ELSE /\ message' = "Login Error: Invalid username or password."
                /\ UNCHANGED <<window, current_user_id, current_username,
                               selected_date, display>>
        /\ UNCHANGED <<users, entries, setup, date_picker, calc>>

register(username_text, password_text) ==
    LET username == Strip(username_text)
        password == Strip(password_text)
        reg == register_user(users, username, password)
    IN  /\ window = "auth"
        /\ IF Len(password) < 4
           THEN /\ message' = "Registration Error: Password must be at least 4 characters."
                /\ UNCHANGED <<users, window, setup>>
           ELSE IF reg.ret.t = "int"
           THEN /\ users' = reg.users
                /\ window' = "profile"
                /\ setup' = [t |-> "ProfileSetupWindow",
                             user_id |-> reg.ret,
                             username |-> PyStr(username)]
                /\ message' = ""
           ELSE /\ message' = "Registration Error: Username already exists."
                /\ UNCHANGED <<users, window, setup>>
        /\ UNCHANGED <<entries, current_user_id, current_username, selected_date,
                       display, date_picker, calc>>

(***************************************************************************)
(* ProfileSetupWindow.                                                     *)
(***************************************************************************)
on_close ==
    /\ window = "profile"
    /\ message' = "Warning: You must save your profile to start tracking."
    /\ UNCHANGED <<users, entries, window, setup, current_user_id, current_username,
                   selected_date, display, date_picker, calc>>

\* nan <= 0 is False
NotPositive(x) == x.t # "nan" /\ x.v <= 0

save_profile(form) ==
    LET age == int(PyStr(form.age))
        feet == int(PyStr(form.feet))
        inches == int(PyStr(form.inches))
        weight == float(PyStr(form.weight))
        goal_weight == float(PyStr(form.goal_weight))
        parsed == ~(IsError(age) \/ IsError(feet) \/ IsError(inches)
                      \/ IsError(weight) \/ IsError(goal_weight))
        height_total_inches == PyInt((feet.v * 12) + inches.v)
        saved == update_profile(users, setup.user_id, age, height_total_inches, weight,
                                goal_weight, PyStr(form.sex), PyStr(form.activity_level))
    IN  /\ window = "profile"
        /\ IF ~parsed
           THEN /\ message' = "Input Error: Please enter valid positive numbers for all fields."
                /\ UNCHANGED <<users, window, setup, current_user_id, current_username,
                               selected_date, display>>
           ELSE IF NotPositive(age) \/ NotPositive(height_total_inches)
                     \/ NotPositive(weight) \/ NotPositive(goal_weight)
           THEN /\ message' = "Input Error: All values must be positive."
                /\ UNCHANGED <<users, window, setup, current_user_id, current_username,
                               selected_date, display>>
           ELSE /\ users' = saved
                /\ setup' = None
                /\ show_main_tracker(saved, setup.user_id, setup.username)
                /\ message' = ""
        /\ UNCHANGED <<entries, date_picker, calc>>

(***************************************************************************)
(* CalorieTrackerApp.                                                      *)
(***************************************************************************)
\* logout that forgets the user and leaves the tracker window in place
logout_keeps_tracker ==
    /\ window = "main"
    /\ current_user_id # None
    /\ current_user_id' = None
    /\ current_username' = None
    /\ message' = ""
    /\ UNCHANGED <<users, entries, window, setup, selected_date, display, date_picker,
                   calc>>

logout ==
    /\ window = "main"
    /\ current_user_id' = None
    /\ current_username' = None
    /\ window' = "auth"
    /\ display' = None
    /\ message' = ""
    /\ UNCHANGED <<users, entries, setup, selected_date, date_picker, calc>>

change_day(delta_days) ==
    LET day == AddDays(selected_date.v, delta_days)
    IN  /\ window = "main"
        /\ day \in DateWindow
        /\ selected_date' = [t |-> "date", v |-> day]
        /\ display' = update_display(entries, current_user_id, day, date_picker,
                                     display.profile)
        /\ message' = ""
        /\ UNCHANGED <<users, entries, window, setup, current_user_id,
                       current_username, date_picker, calc>>

\* <<DateEntrySelected>>: a day picked in the DateEntry
on_date_change(day) ==
    /\ window = "main"
    /\ date_picker # "none"
    /\ selected_date' = [t |-> "date", v |-> day]
    /\ display' = update_display(entries, current_user_id, day, date_picker,
                                 display.profile)
    /\ message' = ""
    /\ UNCHANGED <<users, entries, window, setup, current_user_id, current_username,
                   date_picker, calc>>

\* add_entry that refuses only calories below zero
add_entry_accepts_zero(meal_text, calories_text) ==
    LET meal == Strip(meal_text)
        calories_str == Strip(calories_text)
        calories == int(PyStr(calories_str))
        saved == save_entry(entries, current_user_id, meal, calories.v,
                            PyStr(isoformat(selected_date.v)))
    IN  /\ window = "main"
        /\ IF meal = <<>> \/ calories_str = <<>>
           THEN /\ message' = "Input Error: Please fill in both the meal and calorie fields."
                /\ UNCHANGED <<entries, display>>
           ELSE IF IsError(calories) \/ calories.v < 0
           THEN /\ message' = "Input Error: Calories must be a positive whole number."
                /\ UNCHANGED <<entries, display>>
           ELSE /\ Len(entries) < MaxEntries
                /\ entries' = saved
                /\ display' = update_display(saved, current_user_id, selected_date.v,
                                             date_picker, display.profile)
                /\ message' = ""
        /\ UNCHANGED <<users, window, setup, current_user_id, current_username,
                       selected_date, date_picker, calc>>

add_entry(meal_text, calories_text) ==
    LET meal == Strip(meal_text)
        calories_str == Strip(calories_text)
        calories == int(PyStr(calories_str))
        saved == save_entry(entries, current_user_id, meal, calories.v,
                            PyStr(isoformat(selected_date.v)))
    IN  /\ window = "main"
        /\ IF meal = <<>> \/ calories_str = <<>>
           THEN /\ message' = "Input Error: Please fill in both the meal and calorie fields."
                /\ UNCHANGED <<entries, display>>
           ELSE IF IsError(calories) \/ calories.v <= 0
           THEN /\ message' = "Input Error: Calories must be a positive whole number."
                /\ UNCHANGED <<entries, display>>
           ELSE /\ Len(entries) < MaxEntries
                /\ entries' = saved
                /\ display' = update_display(saved, current_user_id, selected_date.v,
                                             date_picker, display.profile)
                /\ message' = ""
        /\ UNCHANGED <<users, window, setup, current_user_id, current_username,
                       selected_date, date_picker, calc>>

\* the root window (or the login window) is closed, which ends the program,
\* and the program is started again on the same database file:
\* create_default_admin finds the demo account and adds nothing
Relaunch ==
    /\ \E i \in DOMAIN users : users[i].username = DemoName
    /\ window' = "auth"
    /\ setup' = None
    /\ current_user_id' = None
    /\ current_username' = None
    /\ selected_date' = None
    /\ display' = None
    /\ message' = ""
    /\ UNCHANGED <<users, entries, date_picker, calc>>

Login == \E u \in UsernameTexts, p \in PasswordTexts : login(u, p)
Register == \E u \in UsernameTexts, p \in PasswordTexts : register(u, p)
SaveProfile == \E form \in ProfileForms : save_profile(form)
ChangeDay == \E delta_days \in {-1, 1} : change_day(delta_days)
PickDate == \E day \in DateWindow : on_date_change(day)
AddEntry == \E m \in MealTexts, c \in CaloriesTexts : add_entry(m, c)

Next ==
    \/ Login
    \/ Register
    \/ SaveProfile
    \/ on_close
    \/ logout
    \/ ChangeDay
    \/ PickDate
    \/ AddEntry
    \/ Relaunch

Spec == Init /\ [][Next]_vars

(***************************************************************************)
(* ProfileCalculator and the goal arithmetic called on their own, on       *)
(* arguments drawn from bounded sets.  calc records the call and what it   *)
(* returned; the application does not move.                                *)
(***************************************************************************)
\* weights, in pounds: 1 .. MaxWeight
MaxWeight == 180
\* BMI values, in hundredths: 0 .. MaxBmi
MaxBmi == 3100
\* BMR values, in kcal: -100 .. MaxBmr
MaxBmr == 1800
\* maintenance values, in kcal: 0 .. MaxMaintenance
MaxMaintenance == 2100

CalcAges == {1, 18, 30, 65, 100}
CalcHeights == {1, 48, 60, 64, 70, 78}
CalcSexes == {PyStr("Male"), PyStr("Female"), PyStr("Other"), None}
CalcLevels == {PyStr(Sedentary), PyStr(Light), PyStr(Moderate), PyStr(VeryActive),
               PyStr("Extreme"), None}

\* constructor arguments, each with what it is: kind is "positive", "zero",
\* "negative" or "non-numeric"
CtorArgs ==
    { [arg |-> PyInt(30), kind |-> "positive"],
      [arg |-> PyFloat(175), kind |-> "positive"],
      [arg |-> PyStr(<<"7", "0">>), kind |-> "positive"],
      [arg |-> PyInt(0), kind |-> "zero"],
      [arg |-> PyStr(<<"0">>), kind |-> "zero"],
      [arg |-> PyFloat(-3), kind |-> "negative"],
      [arg |-> PyStr(<<"-", "5">>), kind |-> "negative"],
      [arg |-> None, kind |-> "non-numeric"],
      [arg |-> PyStr(<<"x">>), kind |-> "non-numeric"],
      [arg |-> PyStr(<<>>), kind |-> "non-numeric"] }

\* one call per run: every call starts from the idle state
CalcConstruct ==
    /\ calc = Idle
    /\ UNCHANGED app_vars
    /\ \E age \in CtorArgs, height_in \in CtorArgs, weight_lb \in CtorArgs :
        calc' = [op |-> "ProfileCalculator",
                 age |-> age,
                 height_in |-> height_in,
                 weight_lb |-> weight_lb,
                 result |-> ProfileCalculator(age.arg, height_in.arg, weight_lb.arg,
                                              PyStr("Female"), PyStr(Sedentary))]

CalcCategory ==
    /\ calc = Idle
    /\ UNCHANGED app_vars
    /\ \E k \in 0..MaxBmi :
        calc' = [op |-> "get_bmi_category",
                 bmi |-> k,
                 result |-> get_bmi_category([n |-> k, d |-> 100])]

CalcBmr ==
    /\ calc = Idle
    /\ UNCHANGED app_vars
    /\ \E age \in CalcAges, height_in \in CalcHeights, weight_lb \in 1..MaxWeight,
       sex \in CalcSexes :
        LET self == ProfileCalculator(PyInt(age), PyInt(height_in), PyFloat(weight_lb),
                                      sex, PyStr(Moderate))
        IN  calc' = [op |-> "calculate_bmr",
                     age |-> age,
                     height_in |-> height_in,
                     weight_lb |-> weight_lb,
                     sex |-> sex,
                     result |-> calculate_bmr(self)]

CalcTdee ==
    /\ calc = Idle
    /\ UNCHANGED app_vars
    /\ \E bmr \in (-100)..MaxBmr, activity_level \in CalcLevels :
        LET self == ProfileCalculator(PyInt(30), PyInt(70), PyFloat(175), PyStr("Male"),
                                      activity_level)
        IN  calc' = [op |-> "calculate_tdee",
                     bmr |-> bmr,
                     activity_level |-> activity_level,
                     result |-> calculate_tdee(self, bmr)]

CalcGoal ==
    /\ calc = Idle
    /\ UNCHANGED app_vars
    /\ \E tdee_maintenance \in 0..MaxMaintenance, goal_weight_lb \in {110, 120, 130},
       sex \in CalcSexes :
        LET weight_lb == 120
            goal == tdee_goal(tdee_maintenance, goal_weight_lb, weight_lb, sex)
        IN  calc' = [op |-> "tdee_goal",
                     tdee_maintenance |-> tdee_maintenance,
                     goal_weight_lb |-> goal_weight_lb,
                     weight_lb |-> weight_lb,
                     sex |-> sex,
                     result |-> goal_display(goal, goal_weight_lb, weight_lb, sex)]

CalcInit == Init /\ date_picker = "none"

CalcNext ==
    \/ CalcConstruct
    \/ CalcCategory
    \/ CalcBmr
    \/ CalcTdee
    \/ CalcGoal

CalcSpec == CalcInit /\ [][CalcNext]_vars

(***************************************************************************)
(* Properties of the calculator, checked under CalcSpec.                   *)
(***************************************************************************)
Abs(x) == IF x < 0 THEN 0 - x ELSE x

Male == PyStr("Male")
Female == PyStr("Female")

\* C3: a deficit target (goal_weight < weight) is never below the safety floor,
\* 1500 kcal for Male and 1200 kcal for Female; when maintenance - 500 is below
\* the floor the target is exactly the floor and the label carries the
\* "(Safety Floor)" note.  Female, maintenance 1400 gives 1200, noted.
Thm_C3_DeficitClampedToFloor ==
    (/\ calc.op = "tdee_goal"
     /\ calc.sex \in {Male, Female}
     /\ calc.goal_weight_lb < calc.weight_lb)
    => LET floor == IF calc.sex = Male THEN 1500 ELSE 1200
       IN  /\ calc.result.kcal >= floor
           /\ calc.tdee_maintenance - 500 < floor
                => /\ calc.result.kcal = floor
                   /\ calc.result.safety_floor_note

Wit_C3_FemaleClamped ==
    /\ calc.op = "tdee_goal"
    /\ calc.sex = Female
    /\ calc.goal_weight_lb < calc.weight_lb
    /\ calc.tdee_maintenance = 1400
    /\ calc.result = [kcal |-> 1200, safety_floor_note |-> TRUE]

\* C4: the target is maintenance + 500 for a surplus (goal_weight > weight),
\* maintenance itself when the weights are equal, both also when they lie
\* below the floor; for a deficit it is maintenance - 500 unless that is below
\* the floor.
Thm_C4_GoalTarget ==
    calc.op = "tdee_goal"
    => LET m == calc.tdee_maintenance
           floor == IF calc.sex = Male THEN 1500 ELSE 1200
       IN  /\ calc.goal_weight_lb > calc.weight_lb => calc.result.kcal = m + 500
           /\ calc.goal_weight_lb = calc.weight_lb => calc.result.kcal = m
           /\ (calc.goal_weight_lb < calc.weight_lb /\ m - 500 >= floor)
                => calc.result.kcal = m - 500

Wit_C4_SurplusBelowFloor ==
    /\ calc.op = "tdee_goal"
    /\ calc.goal_weight_lb > calc.weight_lb
    /\ calc.tdee_maintenance = 300
    /\ calc.result.kcal = 800

CtorKinds == {calc.age.kind, calc.height_in.kind, calc.weight_lb.kind}

\* C5 as stated: the constructor fails whenever age, height or weight is not
\* a valid positive number (non-numeric, zero or negative).
Cex_C5_RejectsNonPositive ==
    (calc.op = "ProfileCalculator" /\ CtorKinds # {"positive"})
    => calc.result = ValueError

\* C5 amended: the constructor fails exactly when age, height or weight is not
\* numeric (None, or text that is no number); zero and negative numbers are
\* accepted and give a calculator holding them.
Thm_C5_RejectsNonNumeric ==
    calc.op = "ProfileCalculator"
    => IF "non-numeric" \in CtorKinds THEN calc.result = ValueError
       ELSE /\ calc.result.t = "ProfileCalculator"
            /\ calc.age.kind = "zero" => calc.result.age = 0
            /\ calc.height_in.kind = "zero" => calc.result.height_m = 0
            /\ calc.weight_lb.kind = "negative" => calc.result.weight_kg < 0

Wit_C5_ZeroAccepted ==
    /\ calc.op = "ProfileCalculator"
    /\ calc.age.kind = "zero"
    /\ calc.height_in.kind = "zero"
    /\ calc.weight_lb.kind = "negative"
    /\ calc.result.t = "ProfileCalculator"

\* C7: with the BMI in hundredths, below 18.50 is Underweight, from 18.50 and
\* below 24.90 Healthy Weight, from 24.90 and below 29.90 Overweight, from
\* 29.90 Obese.
Thm_C7_CategoryBoundaries ==
    calc.op = "get_bmi_category"
    => /\ calc.result = (IF calc.bmi < 1850 THEN "Underweight"
                         ELSE IF calc.bmi < 2490 THEN "Healthy Weight"
                         ELSE IF calc.bmi < 2990 THEN "Overweight"
                         ELSE "Obese")
       /\ calc.bmi = 1849 => calc.result = "Underweight"
       /\ calc.bmi = 1850 => calc.result = "Healthy Weight"
       /\ calc.bmi = 2490 => calc.result = "Overweight"
       /\ calc.bmi = 2990 => calc.result = "Obese"

Wit_C7_AtBoundary ==
    /\ calc.op = "get_bmi_category"
    /\ calc.bmi = 2490
    /\ calc.result = "Overweight"

\* C8: the BMR is the whole number nearest to
\* 10 * 0.453592 * weight + 6.25 * 2.54 * height - 5 * age + s, s = 5 for Male
\* and -161 for every other sex; both sides are taken times 25000, which makes
\* every term whole.  30 years, 70 in, 175 lb, Male gives 1760.
Thm_C8_MifflinStJeor ==
    calc.op = "calculate_bmr"
    => LET s == IF calc.sex = Male THEN 5 ELSE -161
           exact == 113398 * calc.weight_lb + 396875 * calc.height_in
                      - 125000 * calc.age + 25000 * s
       IN  /\ 2 * Abs(exact - 25000 * calc.result) <= 25000
           /\ (calc.age = 30 /\ calc.height_in = 70 /\ calc.weight_lb = 175
                 /\ calc.sex = Male) => calc.result = 1760

Wit_C8_OtherSex ==
    /\ calc.op = "calculate_bmr"
    /\ calc.age = 30
    /\ calc.height_in = 70
    /\ calc.weight_lb = 175
    /\ calc.sex = PyStr("Other")
    /\ calc.result = 1594

\* C9: the TDEE is the whole number nearest to bmr times the factor of the
\* activity level, 1.2, 1.375, 1.55 and 1.725 for the four levels, and 1.2 for
\* a key that is not in the table; 1760 at Moderate gives 2728.
Thm_C9_TdeeFactor ==
    calc.op = "calculate_tdee"
    => LET level == calc.activity_level
           factor == CASE level = PyStr("Sedentary (Little/No Exercise)") -> 1200
                       [] level = PyStr("Light (1-3 days/wk)") -> 1375
                       [] level = PyStr("Moderate (3-5 days/wk)") -> 1550
                       [] level = PyStr("Very Active (6-7 days/wk)") -> 1725
                       [] OTHER -> 1200
       IN  /\ 2 * Abs(calc.bmr * factor - 1000 * calc.result) <= 1000
           /\ (calc.bmr = 1760 /\ level = PyStr("Moderate (3-5 days/wk)"))
                => calc.result = 2728

Wit_C9_UnknownLevel ==
    /\ calc.op = "calculate_tdee"
    /\ calc.activity_level = PyStr("Extreme")
    /\ calc.bmr = 1760
    /\ calc.result = 2112

\* C17: the goal label carries the "(Safety Floor)" note only when the target
\* was clamped, that is only for a deficit (goal_weight < weight) whose target
\* maintenance - 500 is strictly below the floor; a deficit target at the floor
\* or above it, and every surplus or maintain target, has no note.
Cex_C17_NoteOnlyWhenClamped ==
    (calc.op = "tdee_goal" /\ calc.sex \in {Male, Female})
    => LET floor == IF calc.sex = Male THEN 1500 ELSE 1200
       IN  calc.result.safety_floor_note
             => /\ calc.goal_weight_lb < calc.weight_lb
                /\ calc.tdee_maintenance - 500 < floor

\* a Male deficit target of exactly 1500, which nothing clamped
Wit_C17_DeficitAtFloor ==
    /\ calc.op = "tdee_goal"
    /\ calc.sex = Male
    /\ calc.goal_weight_lb < calc.weight_lb
    /\ calc.tdee_maintenance = 2000
    /\ calc.result.kcal = 1500

(***************************************************************************)
(* Properties of the entry store and of the display, checked under Spec.   *)
(***************************************************************************)
\* the ids of the accounts, and one id no account has
UserIds == {PyInt(i) : i \in 1..(Len(users) + 1)}

\* the days an entry can be dated in this model, and tomorrow
Days == DateWindow \cup {AddDays(Today, 1)}

\* the rows of the table that user u saved for the date text day
RowsOf(u, day) ==
    {i \in DOMAIN entries : entries[i].user_id = u /\ entries[i].entry_date = day}

\* the k-th smallest member of a set of numbers
Nth(S, k) == CHOOSE i \in S : Cardinality({j \in S : j <= i}) = k

\* C1: load_entries(u, d) holds one item per entry saved for u on d and no
\* other, the k-th item has the meal and the calories of the k-th such entry
\* saved (duplicates kept), and a date without entries gives the empty
\* sequence.
Thm_C1_LoadReturnsSavedInOrder ==
    \A u \in UserIds, d \in Days :
        LET got == load_entries(entries, u, PyStr(isoformat(d)))
            rows == RowsOf(u, isoformat(d))
        IN  /\ Len(got) = Cardinality(rows)
            /\ \A k \in 1..Len(got) :
                  got[k] = [meal |-> entries[Nth(rows, k)].meal,
                            calories |-> entries[Nth(rows, k)].calories]

Wit_C1_DuplicateKeptLast ==
    \E u \in UserIds, d \in Days :
        LET got == load_entries(entries, u, PyStr(isoformat(d)))
        IN  /\ Len(got) = 4
            /\ got[4] = got[1]
            /\ got[2] # got[1]
            /\ load_entries(entries, u, PyStr(isoformat(AddDays(d, 2)))) = <<>>

\* the days on which user u has an entry
TrackedDays(u) == {d \in Days : RowsOf(u, isoformat(d)) # {}}

RECURSIVE CaloriesOf(_)
CaloriesOf(S) ==
    IF S = {} THEN 0
    ELSE LET i == CHOOSE j \in S : TRUE
         IN  entries[i].calories + CaloriesOf(S \ {i})

\* C2: load_daily_totals(u, n) has min(n, number of days with an entry of u)
\* rows; every row is a day on which u has an entry with the sum of the
\* calories of u's entries of that day; each row is an earlier day than the row
\* before it; and no day left out is later than a day returned.
Thm_C2_DailyTotals ==
    \A u \in UserIds, n \in 0..MaxLimit :
        LET got == load_daily_totals(entries, u, n)
            days == TrackedDays(u)
            DayOf(k) == CHOOSE d \in Days : isoformat(d) = got[k].date
        IN  /\ Len(got) = (IF n < Cardinality(days) THEN n ELSE Cardinality(days))
            /\ \A k \in 1..Len(got) :
                  /\ \E d \in days : isoformat(d) = got[k].date
                  /\ got[k].total = CaloriesOf(RowsOf(u, got[k].date))
                  /\ k > 1 => DateLess(DayOf(k), DayOf(k - 1))
                  /\ \A e \in days :
                        (\A j \in 1..Len(got) : DayOf(j) # e) => DateLess(e, DayOf(k))

Wit_C2_LimitTwoOfThree ==
    \E u \in UserIds :
        /\ Cardinality(TrackedDays(u)) = 3
        /\ LET got == load_daily_totals(entries, u, 2)
           IN  /\ Len(got) = 2
               /\ got[1].date = isoformat(Today)
               /\ got[2] = [date |-> isoformat(AddDays(Today, -1)), total |-> 1800]

\* the stored profile of the current user has a column that is not set
CurrentProfileIncomplete ==
    \E i \in DOMAIN users :
        /\ PyInt(users[i].id) = current_user_id
        /\ \E x \in {users[i].age, users[i].height, users[i].weight,
                     users[i].goal_weight, users[i].sex, users[i].activity_level} :
              x.t = "None"

\* C6: while the main window is shown for a user whose stored profile has an
\* unset column, the profile area shows the profile-missing notice and no
\* metric; the metrics summary is shown only when every column is set.
Thm_C6_IncompleteProfileRefused ==
    window = "main"
    => /\ CurrentProfileIncomplete
            => display.profile = [label |-> "Profile Data Missing. Please update."]
       /\ display.profile.label = "Metrics Summary" => ~CurrentProfileIncomplete

Wit_C6_NeverSavedProfile ==
    /\ window = "main"
    /\ \E i \in DOMAIN users :
          /\ PyInt(users[i].id) = current_user_id
          /\ users[i].age = None
          /\ users[i].height = None
    /\ display.profile.label = "Profile Data Missing. Please update."

\* entries is the table it was, or that table with one row added at the end
AppendOnlyStep ==
    \/ entries' = entries
    \/ /\ Len(entries') = Len(entries) + 1
       /\ SubSeq(entries', 1, Len(entries)) = entries

\* saving again what a row of the table holds adds a row and changes none
SaveAddsOneRow ==
    \A i \in DOMAIN entries :
        LET e == entries[i]
            after == save_entry(entries, e.user_id, e.meal, e.calories, PyStr(e.entry_date))
        IN  /\ Len(after) = Len(entries) + 1
            /\ SubSeq(after, 1, Len(entries)) = entries
            /\ after[Len(after)] = [e EXCEPT !.id = Len(entries) + 1]

\* C10: every step of the application leaves the entries table as it was or
\* adds one row at its end, so a stored entry stays, unchanged and in its
\* place, in every later state; and save_entry adds a row also when a row with
\* the same user, date, meal and calories exists.
Thm_C10_AppendOnly == [][AppendOnlyStep /\ SaveAddsOneRow]_vars

Wit_C10_IdenticalRecordTwice ==
    \E i, j \in DOMAIN entries :
        /\ i < j
        /\ entries[j] = [entries[i] EXCEPT !.id = j]

(***************************************************************************)
(* Properties of the accounts and of the session, checked under Spec.      *)
(***************************************************************************)
\* the usernames of the table tbl
Usernames(tbl) == {tbl[i].username : i \in DOMAIN tbl}

\* no two accounts share a username
NoSharedUsername ==
    \A i, j \in DOMAIN users : users[i].username = users[j].username => i = j

\* register_user on the present table: a username that is taken gives the
\* failure and the table as it was; a new one gives the table with one more
\* account, which has that username and the password, and the id of that account
RegisterUserContract ==
    \A u \in UsernameTexts \cup {Strip(t) : t \in UsernameTexts}, p \in PasswordTexts :
        LET reg == register_user(users, u, p)
        IN  IF u \in Usernames(users)
            THEN /\ reg.ret = [t |-> "False"]
                 /\ reg.users = users
            ELSE /\ Len(reg.users) = Len(users) + 1
                 /\ SubSeq(reg.users, 1, Len(users)) = users
                 /\ reg.users[Len(reg.users)].username = u
                 /\ reg.ret = PyInt(reg.users[Len(reg.users)].id)
                 /\ \A i \in DOMAIN users : PyInt(users[i].id) # reg.ret
                 /\ login_user(reg.users, u, p) = reg.ret

\* a step that reports the username as taken changes neither table; a step
\* that adds an account adds one, with a username no account had, opens the
\* profile window for its id and leaves the entries alone
RegisterStep ==
    /\ message' = "Registration Error: Username already exists."
          => users' = users /\ entries' = entries
    /\ Len(users') # Len(users)
          => /\ Len(users') = Len(users) + 1
             /\ SubSeq(users', 1, Len(users)) = users
             /\ users'[Len(users')].username \notin Usernames(users)
             /\ setup'.user_id = PyInt(users'[Len(users')].id)
             /\ entries' = entries

\* C11: registering a username that exists fails with the already-exists error
\* and changes neither the accounts nor the entries; registering a new one
\* creates exactly one account and returns its id; no two accounts ever share
\* a username.
Thm_C11_RegisterUnique ==
    /\ [](NoSharedUsername /\ RegisterUserContract)
    /\ [][RegisterStep]_vars

\* a second account exists and a registration has just been refused
Wit_C11_DuplicateRefused ==
    /\ Len(users) = 2
    /\ message = "Registration Error: Username already exists."

\* the values save_profile passes to update_profile for a form that it accepts
SubmittedProfile(form) ==
    <<int(PyStr(form.age)),
      PyInt((int(PyStr(form.feet)).v * 12) + int(PyStr(form.inches)).v),
      float(PyStr(form.weight)),
      float(PyStr(form.goal_weight)),
      PyStr(form.sex),
      PyStr(form.activity_level)>>

\* the account columns that are not profile columns
Credentials(tbl) ==
    [i \in DOMAIN tbl |-> <<tbl[i].id, tbl[i].username, tbl[i].password_hash>>]

\* a step in which the profile window saves a form: afterwards
\* get_user_profile gives the six values that were passed, the rows of the
\* other accounts, every credential and the entries are as before
ProfileOverwriteStep ==
    \A form \in ProfileForms :
        (window = "profile" /\ window' = "main" /\ save_profile(form))
        => /\ get_user_profile(users', setup.user_id)
                 = [t |-> "row", v |-> SubmittedProfile(form)]
           /\ Len(users') = Len(users)
           /\ \A i \in DOMAIN users :
                 PyInt(users[i].id) # setup.user_id => users'[i] = users[i]
           /\ Credentials(users') = Credentials(users)
           /\ entries' = entries

\* C12: update_profile overwrites the whole profile: right after it
\* get_user_profile of that user returns exactly the six values passed,
\* whatever was stored before, and the profiles of the other users, all
\* credentials and all entries are unchanged.
Cex_C12_FullOverwrite == [][ProfileOverwriteStep]_vars

\* a profile that replaced all six unset columns of a new account
Wit_C12_ProfileOverwritten ==
    /\ window = "main"
    /\ current_user_id = PyInt(2)
    /\ get_user_profile(users, current_user_id)
          = [t |-> "row",
             v |-> <<PyInt(40), PyInt(70), PyFloat(150), PyFloat(160), PyStr("Male"),
                     PyStr(Light)>>]
    /\ get_user_profile(users, PyInt(1))
          = [t |-> "row",
             v |-> <<PyInt(30), PyInt(70), PyFloat(175), PyFloat(170), PyStr("Male"),
                     PyStr(Moderate)>>]

\* the state of the session
Session ==
    CASE window = "auth" -> "LoggedOut"
      [] window = "profile" -> "AwaitingProfile"
      [] window = "main" -> "Tracking"

\* a typed number that is a decimal literal above zero
PositiveLiteral(s) ==
    LET r == SignedLiteral(s) IN r.t = "int" /\ r.v > 0

\* a form whose age, height, weight and goal weight are positive numbers
ValidPositive(form) ==
    /\ PositiveLiteral(form.age)
    /\ SignedLiteral(form.feet).t = "int"
    /\ SignedLiteral(form.inches).t = "int"
    /\ (SignedLiteral(form.feet).v * 12) + SignedLiteral(form.inches).v > 0
    /\ PositiveLiteral(form.weight)
    /\ PositiveLiteral(form.goal_weight)

\* the dialogs of a failed login, a refused registration and a refused or
\* closed profile form
FailureMessages ==
    {"Login Error: Please enter both username and password.",
     "Login Error: Invalid username or password.",
     "Registration Error: Password must be at least 4 characters.",
     "Registration Error: Username already exists.",
     "Input Error: Please enter valid positive numbers for all fields.",
     "Input Error: All values must be positive.",
     "Warning: You must save your profile to start tracking."}

\* the program was ended and started again: a new session, logged out
Restarted ==
    /\ Session' = "LoggedOut"
    /\ current_user_id' = None
    /\ selected_date' = None
    /\ setup' = None

\* the four transitions of the session
SessionTransition ==
    \/ /\ Session = "LoggedOut" /\ Session' = "AwaitingProfile"
       /\ Len(users') = Len(users) + 1
       /\ setup'.user_id = PyInt(users'[Len(users')].id)
    \/ /\ Session = "AwaitingProfile" /\ Session' = "Tracking"
       /\ current_user_id' = setup.user_id
       /\ \E form \in ProfileForms : ValidPositive(form) /\ save_profile(form)
    \/ /\ Session = "LoggedOut" /\ Session' = "Tracking"
       /\ \E u \in UsernameTexts, p \in PasswordTexts :
             current_user_id' = login_user(users, Strip(u), Strip(p))
       /\ current_user_id'.t = "int"
    \/ /\ Session = "Tracking" /\ Session' = "LoggedOut"
       /\ current_user_id' = None
       /\ current_username' = None

SessionStep ==
    /\ (Session' # Session \/ current_user_id' # current_user_id)
          => SessionTransition \/ Restarted
    /\ message' \in FailureMessages
          => /\ Session' = Session
             /\ users' = users
             /\ current_user_id' = current_user_id
    /\ \A form \in ProfileForms :
          (window = "profile" /\ save_profile(form) /\ ~ValidPositive(form))
          => /\ Session' = "AwaitingProfile"
             /\ users' = users
    /\ (window = "profile" /\ on_close) => Session' = "AwaitingProfile"

\* C14: the session is LoggedOut, AwaitingProfile or Tracking and changes only
\* by a successful registration (LoggedOut to AwaitingProfile), a saved
\* profile whose values are all positive (AwaitingProfile to Tracking, same
\* user), a successful login (LoggedOut to Tracking) and logout (Tracking to
\* LoggedOut, no current user); a failed login, a duplicate registration and
\* an invalid or non-positive profile form change neither the session nor the
\* stored profile, and closing the profile window stays in AwaitingProfile.
Cex_C14_SessionMachine == [][SessionStep]_vars

\* a new account that reached Tracking through the profile form after a form
\* of it was refused
Wit_C14_RegisteredThenTracking ==
    /\ Session = "Tracking"
    /\ current_user_id = PyInt(2)
    /\ ~CurrentProfileIncomplete

(***************************************************************************)
(* Ownership and validity of the stored entries, checked under Spec.       *)
(***************************************************************************)
\* every entry has the id of exactly one account as its user_id
EntriesOwned ==
    \A i \in DOMAIN entries :
        Cardinality({j \in DOMAIN users : PyInt(users[j].id) = entries[i].user_id}) = 1

\* a step that adds an entry is taken in the tracker, with a user logged in
\* before and after it, and the entry has that user's id
SavedWhileLoggedIn ==
    entries' # entries
    => /\ window = "main"
       /\ current_user_id.t = "int"
       /\ current_user_id' = current_user_id
       /\ \E j \in DOMAIN users : PyInt(users[j].id) = current_user_id
       /\ entries'[Len(entries')].user_id = current_user_id

\* C13: every stored entry belongs to exactly one user, who exists; an entry
\* is saved only while a user is logged in, under that user's id, never
\* without a user (after logout the tracker is gone).
Thm_C13_EntriesOwned == []EntriesOwned /\ [][SavedWhileLoggedIn]_vars

\* the second account saved an entry and logged out
Wit_C13_OwnedAfterLogout ==
    /\ window = "auth"
    /\ current_user_id = None
    /\ \E i \in DOMAIN entries : entries[i].user_id = PyInt(2)

\* text with nothing but spaces in it
Blank(s) == \A i \in 1..Len(s) : s[i] = " "

\* every stored entry has a meal that is not blank and calories above zero
EntriesValid ==
    \A i \in DOMAIN entries : ~Blank(entries[i].meal) /\ entries[i].calories > 0

\* add_entry with a blank meal, or with calories that are not a number above
\* zero, changes no entry; any other add_entry adds one row, for the current
\* user on the selected date, with the meal and the calories typed
AddEntryStep ==
    /\ \A m \in MealTexts, c \in CaloriesTexts :
          (window = "main" /\ add_entry(m, c))
          => IF Blank(m) \/ ~PositiveLiteral(c)
             THEN entries' = entries
             ELSE entries' = Append(entries,
                                    [id |-> Len(entries) + 1,
                                     user_id |-> current_user_id,
                                     meal |-> Strip(m),
                                     calories |-> DigitsValue(Strip(c)),
                                     entry_date |-> isoformat(selected_date.v)])
    /\ entries' # entries
          => \E m \in MealTexts, c \in CaloriesTexts :
                window = "main" /\ add_entry(m, c)

\* C15: an add-entry with a blank meal, or with calories that are not numeric
\* or not above zero, is refused and leaves the entries unchanged; an accepted
\* one appends exactly one entry for the current user on the selected date;
\* so every stored entry has a non-blank meal and calories > 0.
Thm_C15_OnlyValidEntries == []EntriesValid /\ [][AddEntryStep]_vars

\* an entry was accepted and a later one was refused for its calories
Wit_C15_RefusedAfterAccepted ==
    /\ Len(entries) = Len(DemoEntries) + 1
    /\ message = "Input Error: Calories must be a positive whole number."

(***************************************************************************)
(* Isolation of the users' entries, checked under Spec.                    *)
(***************************************************************************)
\* the rows of the entries table that belong to user b
EntriesOf(tbl, b) == SelectSeq(tbl, LAMBDA r : r.user_id = b)

\* LIMIT arguments of the isolation check: no limit, and 0 .. MaxLimit
Limits == {-1} \cup (0..MaxLimit)

\* the three queries for user b on the table tbl
Queries(tbl, b) ==
    [loadEntries |-> [d \in Days |-> load_entries(tbl, b, PyStr(isoformat(d)))],
     loadDailyTotals |-> [n \in Limits |-> load_daily_totals(tbl, b, n)],
     loadTrackedDates |-> load_tracked_dates(tbl, b)]

\* what a query for b returns is what it returns on b's own rows alone: the
\* rows of the other users are neither returned nor summed
OwnRowsOnly ==
    \A b \in UserIds : Queries(entries, b) = Queries(EntriesOf(entries, b), b)

\* a step that saves an entry for one user changes no query of another
OthersUnchanged ==
    entries' # entries
    => \A b \in UserIds :
          entries'[Len(entries')].user_id # b
          => Queries(entries', b) = Queries(entries, b)

\* C16: for distinct users a and b, whatever the order of their sessions,
\* saving an entry for a changes no result of load_entries, load_daily_totals
\* or load_tracked_dates for b, and no query for b returns or sums an entry
\* of a.
Thm_C16_UserIsolation == []OwnRowsOnly /\ [][OthersUnchanged]_vars

\* the first user is logged in again after the second one saved an entry on
\* a day on which the first has entries
Wit_C16_SameDayTwoUsers ==
    /\ window = "main"
    /\ current_user_id = PyInt(1)
    /\ \E d \in Days :
          /\ Len(load_entries(entries, PyInt(1), PyStr(isoformat(d)))) = 3
          /\ Len(load_entries(entries, PyInt(2), PyStr(isoformat(d)))) = 1

====
